---- MODULE Spec2Model ----
(***************************************************************************)
(* High-risk zone editor of the authority dashboard.                       *)
(*                                                                         *)
(* Three parties share one snapshot {zones, logs}:                         *)
(*   - the remote store (app/api/zones/route.ts, GET / POST on zones.json),*)
(*   - the store hook useZones (loadZones, saveZones, createZone,          *)
(*     deleteZone),                                                        *)
(*   - the editor component HighRiskZones, which keeps its own copy of the *)
(*     collections and its own load / save code, plus the drawing session. *)
(*                                                                         *)
(* Every asynchronous operation is split at its await: a Start action runs *)
(* the code up to the fetch, a Done action runs the code after it with the *)
(* response the remote store (or the network) produced.                    *)
(***************************************************************************)
EXTENDS Integers, Sequences, FiniteSets, TLC

\* ------------------------------------------------------------------ bounds
MaxZones == 2       \* zones a collection may hold before create is no longer tried
MaxLogs == 3        \* log entries a collection may hold before no operation is tried
MaxPoints == 3      \* map clicks accepted in one drawing session
MaxInFlight == 2    \* requests the store hook may have outstanding
MaxEditorInFlight == 2  \* requests the editor may have outstanding
MaxVertices == 4    \* vertices of a stored polygon whose centre is computed

\* ------------------------------------------------------------------ inputs
NULL == "null"

P0 == [lat |-> 0, lng |-> 0]
P1 == [lat |-> 0, lng |-> 2]

\* the corners of the square (0,0), (0,2), (2,2), (2,0)
Square ==
    << [lat |-> 0, lng |-> 0], [lat |-> 0, lng |-> 2],
       [lat |-> 2, lng |-> 2], [lat |-> 2, lng |-> 0] >>

\* vertex sequences of stored polygons: every non-empty sequence of corners
\* of the square up to MaxVertices long
VertexInputs ==
    UNION {[1..n -> {Square[k] : k \in DOMAIN Square}] : n \in 1..MaxVertices}

\* points a map click may deliver while only the drawing session is observed
DrawPoints == {P0, P1}

\* points a map click may deliver
Points == {P0}

\* names typed into the dialog; names are sequences of characters, so that
\* trim() is computed
NameInputs == { <<>>, <<" ">>, <<"A">> }

DescriptionInputs == {"d"}

Severities == {"low", "medium", "high", "critical"}

SeverityInputs == {"high"}

\* name and coordinate list handed to the hook's createZone by a caller
CreateInputs ==
    { [name |-> <<"A">>, coordinates |-> <<P0, P1, P1>>],
      [name |-> <<" ">>, coordinates |-> <<P0, P1, P1>>],
      [name |-> <<>>, coordinates |-> <<P0, P1>>] }

\* values of new Date().toISOString()
Timestamps == {"t"}

\* what a GET can come back with: 200, 404, another status, or a rejected fetch
GetOutcomes == {"ok", "404", "500", "network"}

\* what a POST can come back with
PostOutcomes == {"ok", "500", "network"}

\* --------------------------------------------------------------- variables
VARIABLES
    file,                \* zones.json of the remote store
    zones,               \* useZones: zones
    logs,                \* useZones: logs
    loading,             \* useZones: loading
    error,               \* useZones: error
    hookReqs,            \* useZones: calls suspended at their await fetch
    hookRet,             \* useZones: the value the last finished call returned
    highRiskZones,       \* editor: highRiskZones
    zoneLog,             \* editor: zoneLog
    dataLoaded,          \* editor: dataLoaded
    mapLoaded,           \* editor: mapLoaded
    drawingMode,         \* editor: drawingMode
    drawingCoordinates,  \* editor: drawingCoordinates
    selectedZone,        \* editor: selectedZone
    isDialogOpen,        \* editor: isDialogOpen
    newZoneName,         \* editor: newZoneName
    newZoneDescription,  \* editor: newZoneDescription
    newZoneSeverity,     \* editor: newZoneSeverity
    edReqs,              \* editor: calls suspended at their await fetch
    zoneSources,         \* editor map: ids that have a source and layers
    zoneLabels,          \* editor map: the label markers on the map
    alertMsg             \* editor: the last alert() shown

hookVars == <<zones, logs, loading, error, hookReqs, hookRet>>

drawVars == <<drawingMode, drawingCoordinates, isDialogOpen>>

formVars == <<newZoneName, newZoneDescription, newZoneSeverity>>

dataVars == <<highRiskZones, zoneLog, dataLoaded>>

mapVars == <<mapLoaded, zoneSources, zoneLabels>>

edVars == <<dataVars, mapVars, drawVars, formVars, selectedZone, edReqs, alertMsg>>

vars == <<file, hookVars, edVars>>

\* ----------------------------------------------------------------- helpers
RECURSIVE PadStart(_, _, _)
\* String.prototype.padStart with a one-character fill
PadStart(s, n, ch) == IF Len(s) >= n THEN s ELSE PadStart(ch \o s, n, ch)

\* the zone id without its padStart
ZoneIdUnpadded(n) == "HRZ" \o ToString(n)

\* `HRZ${String(n).padStart(3, "0")}`
ZoneId(n) == "HRZ" \o PadStart(ToString(n), 3, "0")

LogId(n) == "LOG" \o PadStart(ToString(n), 3, "0")

IsWhiteSpace(c) == c \in {" ", "\t", "\n"}

RECURSIVE TrimStart(_)
TrimStart(s) ==
    IF s = <<>> THEN s
    ELSE IF IsWhiteSpace(Head(s)) THEN TrimStart(Tail(s)) ELSE s

RECURSIVE TrimEnd(_)
TrimEnd(s) ==
    IF s = <<>> THEN s
    ELSE IF IsWhiteSpace(s[Len(s)]) THEN TrimEnd(SubSeq(s, 1, Len(s) - 1)) ELSE s

\* String.prototype.trim
Trim(s) == TrimEnd(TrimStart(s))

\* !name.trim()
IsBlank(name) == Trim(name) = <<>>

RemoveAt(s, i) == SubSeq(s, 1, i - 1) \o SubSeq(s, i + 1, Len(s))

\* Array.prototype.filter on isActive
ActiveZones(zs) == SelectSeq(zs, LAMBDA z : z.isActive)

ActiveZoneCount(zs) == Len(ActiveZones(zs))

\* Array.prototype.find on id: the index of the first match, 0 when none
FindZone(zs, zoneId) ==
    IF \E i \in DOMAIN zs : zs[i].id = zoneId
    THEN CHOOSE i \in DOMAIN zs :
            /\ zs[i].id = zoneId
            /\ \A j \in DOMAIN zs : zs[j].id = zoneId => i <= j
    ELSE 0

EmptyData == [zones |-> <<>>, logs |-> <<>>]

\* ------------------------------------------------------------ remote store
\* GET that reads the zones only
ServerGetZonesOnly(f) == [zones |-> f.zones, logs |-> <<>>]

\* GET: the stored snapshot, or empty data while zones.json does not exist
ServerGet(f) == IF f.exists THEN [zones |-> f.zones, logs |-> f.logs] ELSE EmptyData

\* POST that keeps a file which already exists
ServerPostKeepFirst(f, zonesData, logsData) ==
    IF f.exists THEN f ELSE [exists |-> TRUE, zones |-> zonesData, logs |-> logsData]

\* POST: the whole file is replaced by the posted snapshot
ServerPost(f, zonesData, logsData) ==
    [exists |-> TRUE, zones |-> zonesData, logs |-> logsData]

\* the file after a POST that came back with the given outcome
FileAfterPost(f, outcome, zonesData, logsData) ==
    IF outcome = "ok" THEN ServerPost(f, zonesData, logsData) ELSE f

\* DELETE: an existing file is overwritten with empty data
ServerDelete(f) ==
    IF f.exists THEN [exists |-> TRUE, zones |-> <<>>, logs |-> <<>>] ELSE f

\* the message of the Error a failed fetch ends in
ErrorMessage(outcome) ==
    IF outcome = "network" THEN "Failed to fetch"
    ELSE "HTTP error! status: " \o outcome

\* -------------------------------------------------- zone and log entries
\* the zone object with its id taken from the number of active zones
NewZoneFromActiveCount(zs, name, description, coordinates, severity, now, officer) ==
    [id          |-> ZoneId(ActiveZoneCount(zs) + 1),
     name        |-> name,
     description |-> description,
     coordinates |-> coordinates,
     severity    |-> severity,
     createdAt   |-> now,
     createdBy   |-> officer,
     isActive    |-> TRUE]

\* the zone object createZone / saveNewZone builds for a collection zs
NewZone(zs, name, description, coordinates, severity, now, officer) ==
    [id          |-> ZoneId(Len(zs) + 1),
     name        |-> name,
     description |-> description,
     coordinates |-> coordinates,
     severity    |-> severity,
     createdAt   |-> now,
     createdBy   |-> officer,
     isActive    |-> TRUE]

\* [...zones, newZone]
WithNewZone(zs, z) == Append(zs, z)

\* the "created" entry built for a log ls
CreatedLog(ls, name, description, severity, now, officer) ==
    [id        |-> LogId(Len(ls) + 1),
     action    |-> "created",
     zoneName  |-> name,
     timestamp |-> now,
     officer   |-> officer,
     details   |-> "New " \o severity \o " severity zone created: " \o description]

\* the "deleted" entry built for a log ls
DeletedLog(ls, zoneName, now, officer) ==
    [id        |-> LogId(Len(ls) + 1),
     action    |-> "deleted",
     zoneName  |-> zoneName,
     timestamp |-> now,
     officer   |-> officer,
     details   |-> "High-risk zone deactivated"]

\* [...logs, logEntry]: the entry put at the end of the log
WithLogEntryAtEnd(ls, entry) == Append(ls, entry)

\* [logEntry, ...logs]
WithLogEntry(ls, entry) == <<entry>> \o ls

\* zones.map(z => ({...z, isActive: false})): the id comparison left out
DeactivatedAll(zs, zoneId) ==
    [i \in DOMAIN zs |-> [zs[i] EXCEPT !.isActive = FALSE]]

\* zones.map(z => z.id === zoneId ? {...z, isActive: false} : z)
Deactivated(zs, zoneId) ==
    [i \in DOMAIN zs |->
        IF zs[i].id = zoneId THEN [zs[i] EXCEPT !.isActive = FALSE] ELSE zs[i]]

HookOfficer == "Police Department"

EditorOfficer == "Current Officer"

\* ------------------------------------------------------------ useZones hook
\* ids a caller may hand to deleteZone
ZoneIdInputs == {ZoneId(n) : n \in 1..MaxZones} \cup {"HRZ999"}

NoRet == [op |-> "none", ok |-> FALSE]

HookReq(kind, zonesData, logsData, name, coordinates, zoneId) ==
    [kind        |-> kind,
     zonesData   |-> zonesData,     \* saveZones argument
     logsData    |-> logsData,      \* saveZones argument
     zones0      |-> zones,         \* zones captured by the callback
     logs0       |-> logs,          \* logs captured by the callback
     name        |-> name,
     coordinates |-> coordinates,
     zoneId      |-> zoneId]

\* loadZones without its 404 branch
LoadResultNo404(outcome, data) ==
    IF outcome = "ok"
    THEN [ok |-> TRUE, zones |-> data.zones, logs |-> data.logs, error |-> NULL]
    ELSE [ok |-> FALSE, zones |-> <<>>, logs |-> <<>>, error |-> ErrorMessage(outcome)]

\* what loadZones sets and returns for a response
LoadResult(outcome, data) ==
    IF outcome = "ok"
    THEN [ok |-> TRUE, zones |-> data.zones, logs |-> data.logs, error |-> NULL]
    ELSE IF outcome = "404"
    THEN [ok |-> TRUE, zones |-> <<>>, logs |-> <<>>, error |-> NULL]
    ELSE [ok |-> FALSE, zones |-> <<>>, logs |-> <<>>, error |-> ErrorMessage(outcome)]

\* loadZones up to its await fetch
LoadZonesStart ==
    /\ Len(hookReqs) < MaxInFlight
    /\ loading' = TRUE
    /\ error' = NULL
    /\ hookReqs' = Append(hookReqs, HookReq("load", <<>>, <<>>, <<>>, <<>>, NULL))
    /\ UNCHANGED <<zones, logs, hookRet, file, edVars>>

\* loadZones after its await fetch
LoadZonesDone(i, outcome) ==
    /\ i \in DOMAIN hookReqs
    /\ hookReqs[i].kind = "load"
    /\ LET r == LoadResult(outcome, ServerGet(file)) IN
        /\ zones' = r.zones
        /\ logs' = r.logs
        /\ error' = IF r.ok THEN error ELSE r.error
        /\ hookRet' = [op |-> "load", ok |-> r.ok]
    /\ loading' = FALSE
    /\ hookReqs' = RemoveAt(hookReqs, i)
    /\ UNCHANGED <<file, edVars>>

\* createZone up to the await fetch inside saveZones
CreateZoneStart(name, description, coordinates, severity, now) ==
    /\ Len(hookReqs) < MaxInFlight
    /\ Len(zones) < MaxZones
    /\ Len(logs) < MaxLogs
    /\ LET newZone == NewZone(zones, name, description, coordinates, severity,
                              now, HookOfficer)
           logEntry == CreatedLog(logs, name, description, severity, now, HookOfficer)
       IN hookReqs' = Append(hookReqs,
              HookReq("create", WithNewZone(zones, newZone),
                      WithLogEntry(logs, logEntry), name, coordinates, newZone.id))
    /\ loading' = TRUE
    /\ error' = NULL
    /\ UNCHANGED <<zones, logs, hookRet, file, edVars>>

\* zones.find(z => z.id === zoneId) found a zone
ZoneFound(zs, zoneId) == FindZone(zs, zoneId) # 0

\* deleteZone with the catch block of loadZones, which empties the collections
DeleteZoneNotFoundResets(zoneId) ==
    /\ ~ZoneFound(zones, zoneId)
    /\ error' = "Zone not found"
    /\ hookRet' = [op |-> "delete", ok |-> FALSE]
    /\ zones' = <<>>
    /\ logs' = <<>>
    /\ UNCHANGED <<loading, hookReqs, file, edVars>>

\* deleteZone when the id is unknown: throws, and the catch returns false
DeleteZoneNotFound(zoneId) ==
    /\ ~ZoneFound(zones, zoneId)
    /\ error' = "Zone not found"
    /\ hookRet' = [op |-> "delete", ok |-> FALSE]
    /\ UNCHANGED <<zones, logs, loading, hookReqs, file, edVars>>

\* deleteZone up to the await fetch inside saveZones
DeleteZoneStart(zoneId, now) ==
    /\ ZoneFound(zones, zoneId)
    /\ Len(hookReqs) < MaxInFlight
    /\ Len(logs) < MaxLogs
    /\ LET zone == zones[FindZone(zones, zoneId)]
           logEntry == DeletedLog(logs, zone.name, now, HookOfficer)
       IN hookReqs' = Append(hookReqs,
              HookReq("delete", Deactivated(zones, zoneId),
                      WithLogEntry(logs, logEntry), zone.name, zone.coordinates, zoneId))
    /\ loading' = TRUE
    /\ error' = NULL
    /\ UNCHANGED <<zones, logs, hookRet, file, edVars>>

\* saveZones after its await fetch, and the return of createZone / deleteZone
SaveZonesDone(i, outcome) ==
    /\ i \in DOMAIN hookReqs
    /\ hookReqs[i].kind \in {"create", "delete"}
    /\ LET r == hookReqs[i] IN
        /\ file' = FileAfterPost(file, outcome, r.zonesData, r.logsData)
        /\ zones' = IF outcome = "ok" THEN r.zonesData ELSE zones
        /\ logs' = IF outcome = "ok" THEN r.logsData ELSE logs
        /\ error' = IF outcome = "ok" THEN error ELSE ErrorMessage(outcome)
        /\ hookRet' = [op |-> r.kind, ok |-> outcome = "ok"]
    /\ loading' = FALSE
    /\ hookReqs' = RemoveAt(hookReqs, i)
    /\ UNCHANGED edVars

\* clearError
ClearError ==
    /\ error # NULL
    /\ error' = NULL
    /\ UNCHANGED <<zones, logs, loading, hookReqs, hookRet, file, edVars>>

\* a DELETE request to the remote store; no client code sends one, so it
\* comes from outside the two clients
ClearAllData ==
    /\ file.exists
    /\ file' = ServerDelete(file)
    /\ UNCHANGED <<hookVars, edVars>>

HookNext ==
    \/ LoadZonesStart
    \/ \E i \in 1..MaxInFlight, o \in GetOutcomes : LoadZonesDone(i, o)
    \/ \E a \in CreateInputs, d \in DescriptionInputs, s \in SeverityInputs,
          t \in Timestamps : CreateZoneStart(a.name, d, a.coordinates, s, t)
    \/ \E id \in ZoneIdInputs : DeleteZoneNotFound(id)
    \/ \E id \in ZoneIdInputs, t \in Timestamps : DeleteZoneStart(id, t)
    \/ \E i \in 1..MaxInFlight, o \in PostOutcomes : SaveZonesDone(i, o)
    \/ ClearError
    \/ ClearAllData

\* ------------------------------------------------- HighRiskZones component
\* The new-zone dialog is modal (<Dialog open={isDialogOpen}>): while it is
\* open only its own controls (fields, Cancel, Create Zone) can be operated,
\* so every handler of the toolbar, the map and the details panel is guarded
\* by ~isDialogOpen.
EdReq(kind, zonesData, logsData, zoneId) ==
    [kind      |-> kind,
     zonesData |-> zonesData,       \* saveZonesData argument
     logsData  |-> logsData,        \* saveZonesData argument
     zones0    |-> highRiskZones,   \* highRiskZones of the render the handler closes over
     logs0     |-> zoneLog,         \* zoneLog of the render the handler closes over
     zoneId    |-> zoneId]

\* the condition of the add-zones effect
ZonesEffectRuns(ml, dl, zs) == ml /\ dl /\ Len(zs) > 0

\* addHighRiskZones: the active zones that have no source yet get one
SourcesAfterEffect(ml, dl, zs, sources) ==
    IF ZonesEffectRuns(ml, dl, zs)
    THEN sources \cup {zs[i].id : i \in {j \in DOMAIN zs : zs[j].isActive}}
    ELSE sources

\* a / b of two numbers, kept as the exact quotient
Quotient(a, b) == [num |-> a, den |-> b]

RECURSIVE ReduceLat(_, _)
\* coordinates.reduce((sum, coord) => sum + coord.lat, 0) over the first k items
ReduceLat(coordinates, k) ==
    IF k = 0 THEN 0 ELSE ReduceLat(coordinates, k - 1) + coordinates[k].lat

RECURSIVE ReduceLng(_, _)
\* coordinates.reduce((sum, coord) => sum + coord.lng, 0) over the first k items
ReduceLng(coordinates, k) ==
    IF k = 0 THEN 0 ELSE ReduceLng(coordinates, k - 1) + coordinates[k].lng

\* getPolygonCenter with the two sums exchanged
GetPolygonCenterSwapped(coordinates) ==
    [lat |-> Quotient(ReduceLng(coordinates, Len(coordinates)), Len(coordinates)),
     lng |-> Quotient(ReduceLat(coordinates, Len(coordinates)), Len(coordinates))]

\* getPolygonCenter
GetPolygonCenter(coordinates) ==
    [lat |-> Quotient(ReduceLat(coordinates, Len(coordinates)), Len(coordinates)),
     lng |-> Quotient(ReduceLng(coordinates, Len(coordinates)), Len(coordinates))]

\* the label marker addHighRiskZones creates for a zone: it is placed at the
\* polygon centre, and its click handler holds the zone object of that render
LabelMarker(zone) ==
    [zone   |-> zone,
     lngLat |-> <<GetPolygonCenter(zone.coordinates).lng,
                  GetPolygonCenter(zone.coordinates).lat>>]

\* addHighRiskZones: each zone that gets a source also gets a label marker
LabelsAfterEffect(ml, dl, zs, sources, labels) ==
    IF ZonesEffectRuns(ml, dl, zs)
    THEN labels \cup {LabelMarker(zs[i]) : i \in {j \in DOMAIN zs :
                                        zs[j].isActive /\ zs[j].id \notin sources}}
    ELSE labels

\* the map init effect has handleMapClick as its dependency, which changes
\* with drawingMode: the cleanup removes the map with everything on it and a
\* new map is created; the add-zones effect is not re-run
MapAfterModeChange(newMode) ==
    IF newMode # drawingMode
    THEN zoneSources' = {} /\ zoneLabels' = {}
    ELSE UNCHANGED <<zoneSources, zoneLabels>>

\* what loadZonesData sets for a response
LoadDataResult(outcome, data) ==
    IF outcome = "ok" THEN data ELSE EmptyData

\* loadZonesData after its await fetch (the call is made on mount)
LoadZonesDataDone(i, outcome) ==
    /\ i \in DOMAIN edReqs
    /\ edReqs[i].kind = "load"
    /\ LET r == LoadDataResult(outcome, ServerGet(file)) IN
        /\ highRiskZones' = r.zones
        /\ zoneLog' = r.logs
        /\ dataLoaded' = TRUE
        /\ zoneSources' = SourcesAfterEffect(mapLoaded, TRUE, r.zones, zoneSources)
        /\ zoneLabels' = LabelsAfterEffect(mapLoaded, TRUE, r.zones, zoneSources, zoneLabels)
    /\ edReqs' = RemoveAt(edReqs, i)
    /\ UNCHANGED <<file, hookVars, mapLoaded, drawVars, formVars, selectedZone, alertMsg>>

\* the map's "load" event
MapLoad ==
    /\ ~mapLoaded
    /\ mapLoaded' = TRUE
    /\ zoneSources' = SourcesAfterEffect(TRUE, dataLoaded, highRiskZones, zoneSources)
    /\ zoneLabels' = LabelsAfterEffect(TRUE, dataLoaded, highRiskZones, zoneSources, zoneLabels)
    /\ UNCHANGED <<file, hookVars, dataVars, drawVars, formVars, selectedZone, edReqs, alertMsg>>

\* startPolygonDrawing ("Draw Polygon" button)
StartPolygonDrawing ==
    /\ ~isDialogOpen
    /\ drawingMode' = "polygon"
    /\ drawingCoordinates' = <<>>
    /\ MapAfterModeChange("polygon")
    /\ UNCHANGED <<file, hookVars, dataVars, mapLoaded, isDialogOpen, formVars,
                   selectedZone, edReqs, alertMsg>>

\* handleMapClick that keeps each coordinate once, at its latest position
HandleMapClickDedup(p) ==
    /\ ~isDialogOpen
    /\ drawingMode = "polygon"
    /\ Len(drawingCoordinates) < MaxPoints
    /\ drawingCoordinates' =
          Append(SelectSeq(drawingCoordinates, LAMBDA q : q # p), p)
    /\ UNCHANGED <<file, hookVars, dataVars, mapVars, drawingMode, isDialogOpen,
                   formVars, selectedZone, edReqs, alertMsg>>

\* handleMapClick while drawing
HandleMapClick(p) ==
    /\ ~isDialogOpen
    /\ drawingMode = "polygon"
    /\ Len(drawingCoordinates) < MaxPoints
    /\ drawingCoordinates' = Append(drawingCoordinates, p)
    /\ UNCHANGED <<file, hookVars, dataVars, mapVars, drawingMode, isDialogOpen,
                   formVars, selectedZone, edReqs, alertMsg>>

\* handleMapClick without its early return: the point is taken in every mode
MapClickIgnoredAppends(p) ==
    /\ ~isDialogOpen
    /\ drawingMode # "polygon"
    /\ Len(drawingCoordinates) < MaxPoints
    /\ drawingCoordinates' = Append(drawingCoordinates, p)
    /\ UNCHANGED <<file, hookVars, dataVars, mapVars, drawingMode, isDialogOpen,
                   formVars, selectedZone, edReqs, alertMsg>>

\* handleMapClick while not drawing: the early return
MapClickIgnored(p) ==
    /\ ~isDialogOpen
    /\ drawingMode # "polygon"
    /\ UNCHANGED vars

\* the guard of finishPolygon off by one
FinishAllowedFromTwo(coordinates) == Len(coordinates) >= 2

\* the guard of finishPolygon
FinishAllowed(coordinates) == Len(coordinates) >= 3

MinPointsAlert == "Please mark at least 3 points to create a polygon"

\* finishPolygon without its setDrawingMode("none")
FinishPolygonKeepsMode ==
    /\ ~isDialogOpen
    /\ drawingMode = "polygon"
    /\ IF FinishAllowed(drawingCoordinates)
       THEN isDialogOpen' = TRUE /\ UNCHANGED alertMsg
       ELSE alertMsg' = MinPointsAlert /\ UNCHANGED isDialogOpen
    /\ UNCHANGED <<file, hookVars, dataVars, mapVars, drawingMode, drawingCoordinates,
                   formVars, selectedZone, edReqs>>

\* finishPolygon (the "Finish" button is rendered while drawingMode is
\* polygon). The button is also disabled below 3 points; the handler is
\* modelled for every point count so that its own guard is exercised.
FinishPolygon ==
    /\ ~isDialogOpen
    /\ drawingMode = "polygon"
    /\ IF FinishAllowed(drawingCoordinates)
       THEN /\ drawingMode' = "none"
            /\ isDialogOpen' = TRUE
            /\ MapAfterModeChange("none")
            /\ UNCHANGED alertMsg
       ELSE /\ alertMsg' = MinPointsAlert
            /\ UNCHANGED <<drawingMode, isDialogOpen, zoneSources, zoneLabels>>
    /\ UNCHANGED <<file, hookVars, dataVars, mapLoaded, drawingCoordinates, formVars,
                   selectedZone, edReqs>>

\* cancelDrawing ("Cancel" button of the toolbar, rendered while drawing) and
\* the "Select" button, whose handler makes the same assignments
CancelDrawing ==
    /\ ~isDialogOpen
    /\ drawingMode' = "none"
    /\ drawingCoordinates' = <<>>
    /\ MapAfterModeChange("none")
    /\ UNCHANGED <<file, hookVars, dataVars, mapLoaded, isDialogOpen, formVars,
                   selectedZone, edReqs, alertMsg>>

\* "Cancel" button of the dialog, and the dialog's onOpenChange(false)
DialogCancel ==
    /\ isDialogOpen
    /\ isDialogOpen' = FALSE
    /\ UNCHANGED <<file, hookVars, dataVars, mapVars, drawingMode, drawingCoordinates,
                   formVars, selectedZone, edReqs, alertMsg>>

\* the dialog's form fields
EditForm(name, description, severity) ==
    /\ isDialogOpen
    /\ newZoneName' = name
    /\ newZoneDescription' = description
    /\ newZoneSeverity' = severity
    /\ UNCHANGED <<file, hookVars, dataVars, mapVars, drawVars, selectedZone, edReqs,
                   alertMsg>>

\* the guard of saveNewZone
SaveAllowed(name, coordinates) == ~IsBlank(name) /\ Len(coordinates) >= 3

\* saveNewZone when its guard returns early
SaveNewZoneRejected ==
    /\ isDialogOpen
    /\ ~SaveAllowed(newZoneName, drawingCoordinates)
    /\ UNCHANGED vars

\* saveNewZone up to the await fetch inside saveZonesData
SaveNewZoneStart(now) ==
    /\ isDialogOpen
    /\ SaveAllowed(newZoneName, drawingCoordinates)
    /\ Len(edReqs) < MaxEditorInFlight
    /\ Len(highRiskZones) < MaxZones
    /\ Len(zoneLog) < MaxLogs
    /\ LET newZone == NewZone(highRiskZones, newZoneName, newZoneDescription,
                              drawingCoordinates, newZoneSeverity, now, EditorOfficer)
           updatedZones == WithNewZone(highRiskZones, newZone)
           logEntry == CreatedLog(zoneLog, newZoneName, newZoneDescription,
                                  newZoneSeverity, now, EditorOfficer)
           updatedLogs == WithLogEntry(zoneLog, logEntry)
       IN /\ highRiskZones' = updatedZones
          /\ zoneLog' = updatedLogs
          /\ edReqs' = Append(edReqs, EdReq("create", updatedZones, updatedLogs, newZone.id))
          /\ zoneSources' = SourcesAfterEffect(mapLoaded, dataLoaded, updatedZones, zoneSources)
          /\ zoneLabels' = LabelsAfterEffect(mapLoaded, dataLoaded, updatedZones,
                                             zoneSources, zoneLabels)
    /\ UNCHANGED <<file, hookVars, dataLoaded, mapLoaded, drawVars, formVars,
                   selectedZone, alertMsg>>

\* saveNewZone after the await: saveZonesData has swallowed any error
SaveNewZoneDone(i, outcome) ==
    /\ i \in DOMAIN edReqs
    /\ edReqs[i].kind = "create"
    /\ file' = FileAfterPost(file, outcome, edReqs[i].zonesData, edReqs[i].logsData)
    /\ newZoneName' = <<>>
    /\ newZoneDescription' = ""
    /\ newZoneSeverity' = "medium"
    /\ drawingCoordinates' = <<>>
    /\ isDialogOpen' = FALSE
    /\ edReqs' = RemoveAt(edReqs, i)
    /\ UNCHANGED <<hookVars, dataVars, mapVars, drawingMode, selectedZone, alertMsg>>

\* a click on a zone's label marker or on its fill layer
SelectZone ==
    /\ ~isDialogOpen
    /\ \E m \in zoneLabels : selectedZone' = <<m.zone>>
    /\ UNCHANGED <<file, hookVars, dataVars, mapVars, drawVars, formVars, edReqs, alertMsg>>

\* the close button of the details panel
CloseDetails ==
    /\ ~isDialogOpen
    /\ selectedZone # <<>>
    /\ selectedZone' = <<>>
    /\ UNCHANGED <<file, hookVars, dataVars, mapVars, drawVars, formVars, edReqs, alertMsg>>

\* deleteZone(selectedZone.id) up to the await fetch inside saveZonesData; a
\* selected zone always comes from the collection, which never shrinks, so
\* the early return for an unknown id is never taken
EdDeleteZoneStart(now) ==
    /\ ~isDialogOpen
    /\ selectedZone # <<>>
    /\ ZoneFound(highRiskZones, selectedZone[1].id)
    /\ Len(edReqs) < MaxEditorInFlight
    /\ Len(zoneLog) < MaxLogs
    /\ LET zoneId == selectedZone[1].id
           zone == highRiskZones[FindZone(highRiskZones, zoneId)]
           updatedZones == Deactivated(highRiskZones, zoneId)
           logEntry == DeletedLog(zoneLog, zone.name, now, EditorOfficer)
           updatedLogs == WithLogEntry(zoneLog, logEntry)
       IN /\ highRiskZones' = updatedZones
          /\ zoneLog' = updatedLogs
          /\ edReqs' = Append(edReqs, EdReq("delete", updatedZones, updatedLogs, zoneId))
          /\ zoneSources' = SourcesAfterEffect(mapLoaded, dataLoaded, updatedZones, zoneSources)
          /\ zoneLabels' = LabelsAfterEffect(mapLoaded, dataLoaded, updatedZones,
                                             zoneSources, zoneLabels)
    /\ UNCHANGED <<file, hookVars, dataLoaded, mapLoaded, drawVars, formVars,
                   selectedZone, alertMsg>>

\* deleteZone after the await: the zone's layers and source are removed
EdDeleteZoneDone(i, outcome) ==
    /\ i \in DOMAIN edReqs
    /\ edReqs[i].kind = "delete"
    /\ file' = FileAfterPost(file, outcome, edReqs[i].zonesData, edReqs[i].logsData)
    /\ zoneSources' = zoneSources \ {edReqs[i].zoneId}
    /\ selectedZone' = <<>>
    /\ edReqs' = RemoveAt(edReqs, i)
    /\ UNCHANGED <<hookVars, dataVars, mapLoaded, zoneLabels, drawVars, formVars, alertMsg>>

\* geojsonData, computed on every render from highRiskZones
GeoJsonFeature(zone) ==
    [type       |-> "Feature",
     properties |-> [id          |-> zone.id,
                     name        |-> zone.name,
                     description |-> zone.description,
                     severity    |-> zone.severity,
                     createdAt   |-> zone.createdAt,
                     createdBy   |-> zone.createdBy],
     geometry   |-> [type        |-> "Polygon",
                     coordinates |-> << [k \in DOMAIN zone.coordinates |->
                                           <<zone.coordinates[k].lng,
                                             zone.coordinates[k].lat>>] >>]]

GeoJsonData(zs) ==
    [type     |-> "FeatureCollection",
     features |-> [k \in DOMAIN ActiveZones(zs) |-> GeoJsonFeature(ActiveZones(zs)[k])]]

EditorNext ==
    \/ \E i \in 1..MaxEditorInFlight, o \in GetOutcomes : LoadZonesDataDone(i, o)
    \/ MapLoad
    \/ StartPolygonDrawing
    \/ \E p \in Points : HandleMapClick(p)
    \/ \E p \in Points : MapClickIgnored(p)
    \/ FinishPolygon
    \/ CancelDrawing
    \/ DialogCancel
    \/ \E n \in NameInputs, d \in DescriptionInputs, s \in SeverityInputs : EditForm(n, d, s)
    \/ SaveNewZoneRejected
    \/ \E t \in Timestamps : SaveNewZoneStart(t)
    \/ \E i \in 1..MaxEditorInFlight, o \in PostOutcomes : SaveNewZoneDone(i, o)
    \/ SelectZone
    \/ CloseDetails
    \/ \E t \in Timestamps : EdDeleteZoneStart(t)
    \/ \E i \in 1..MaxEditorInFlight, o \in PostOutcomes : EdDeleteZoneDone(i, o)

\* ----------------------------------------------------------- specification
\* a snapshot an earlier session has left in zones.json
SeedZone == NewZone(<<>>, <<"S">>, "d", <<P0, P1, P1>>, "low", "t", HookOfficer)

SeedFile ==
    [exists |-> TRUE,
     zones  |-> <<SeedZone>>,
     logs   |-> <<CreatedLog(<<>>, <<"S">>, "d", "low", "t", HookOfficer)>>]

NoFile == [exists |-> FALSE, zones |-> <<>>, logs |-> <<>>]

\* the two clients right after mount: nothing loaded, the editor's first
\* load on its way
InitClients ==
    /\ zones = <<>>
    /\ logs = <<>>
    /\ loading = FALSE
    /\ error = NULL
    /\ hookReqs = <<>>
    /\ hookRet = NoRet
    /\ highRiskZones = <<>>
    /\ zoneLog = <<>>
    /\ dataLoaded = FALSE
    /\ mapLoaded = FALSE
    /\ drawingMode = "none"
    /\ drawingCoordinates = <<>>
    /\ selectedZone = <<>>
    /\ isDialogOpen = FALSE
    /\ newZoneName = <<>>
    /\ newZoneDescription = ""
    /\ newZoneSeverity = "medium"
    /\ edReqs = <<EdReq("load", <<>>, <<>>, NULL)>>
    /\ zoneSources = {}
    /\ zoneLabels = {}
    /\ alertMsg = NULL

Init ==
    /\ file \in {NoFile, SeedFile}
    /\ InitClients

\* the store hook and the remote store
Spec == Init /\ [][HookNext]_vars

\* the editor component and the remote store
SpecEditor == Init /\ [][EditorNext]_vars

\* two sessions on one remote store, a caller of the store hook, who awaits
\* each call before making the next, and an operator at the editor, each
\* loading and creating zones
SessionsNext ==
    \/ hookReqs = <<>> /\ LoadZonesStart
    \/ \E i \in 1..MaxInFlight, o \in GetOutcomes : LoadZonesDone(i, o)
    \/ \E a \in CreateInputs, d \in DescriptionInputs, s \in SeverityInputs,
          t \in Timestamps :
            hookReqs = <<>> /\ CreateZoneStart(a.name, d, a.coordinates, s, t)
    \/ \E i \in 1..MaxInFlight, o \in PostOutcomes : SaveZonesDone(i, o)
    \/ \E i \in 1..MaxEditorInFlight, o \in GetOutcomes : LoadZonesDataDone(i, o)
    \/ StartPolygonDrawing
    \/ \E p \in Points : HandleMapClick(p)
    \/ FinishPolygon
    \/ \E n \in NameInputs, d \in DescriptionInputs, s \in SeverityInputs : EditForm(n, d, s)
    \/ \E t \in Timestamps : SaveNewZoneStart(t)
    \/ \E i \in 1..MaxEditorInFlight, o \in PostOutcomes : SaveNewZoneDone(i, o)

SpecSessions == Init /\ [][SessionsNext]_vars

\* a snapshot with one active zone on a given vertex sequence
PolygonFile(coordinates) ==
    [exists |-> TRUE,
     zones  |-> <<NewZone(<<>>, <<"S">>, "d", coordinates, "low", "t", HookOfficer)>>,
     logs   |-> <<CreatedLog(<<>>, <<"S">>, "d", "low", "t", HookOfficer)>>]

InitPolygons ==
    /\ file \in {PolygonFile(c) : c \in VertexInputs}
    /\ InitClients

\* the editor showing a stored zone: the data load and the map load, after
\* which addHighRiskZones places the zone's label marker
LabelNext ==
    \/ \E i \in 1..MaxEditorInFlight, o \in GetOutcomes : LoadZonesDataDone(i, o)
    \/ MapLoad

\* the editor's label placement over every stored polygon
SpecLabels == InitPolygons /\ [][LabelNext]_vars

\* the editor's drawing session on its own: the toolbar, the map clicks and
\* the dialog's fields and Cancel, with no create or deactivate
DrawingNext ==
    \/ \E i \in 1..MaxEditorInFlight, o \in GetOutcomes : LoadZonesDataDone(i, o)
    \/ MapLoad
    \/ StartPolygonDrawing
    \/ \E p \in DrawPoints : HandleMapClick(p)
    \/ \E p \in DrawPoints : MapClickIgnored(p)
    \/ FinishPolygon
    \/ CancelDrawing
    \/ DialogCancel
    \/ \E n \in NameInputs, d \in DescriptionInputs, s \in SeverityInputs : EditForm(n, d, s)

SpecDrawing == Init /\ [][DrawingNext]_vars

\* a single session of the store hook on a store that starts empty, whose
\* caller awaits each call before making the next
InitEmptyStore ==
    /\ file = NoFile
    /\ InitClients

SequentialNext ==
    \/ hookReqs = <<>> /\ LoadZonesStart
    \/ \E i \in 1..MaxInFlight, o \in GetOutcomes : LoadZonesDone(i, o)
    \/ \E a \in CreateInputs, d \in DescriptionInputs, s \in SeverityInputs,
          t \in Timestamps :
            hookReqs = <<>> /\ CreateZoneStart(a.name, d, a.coordinates, s, t)
    \/ \E id \in ZoneIdInputs : hookReqs = <<>> /\ DeleteZoneNotFound(id)
    \/ \E id \in ZoneIdInputs, t \in Timestamps :
            hookReqs = <<>> /\ DeleteZoneStart(id, t)
    \/ \E i \in 1..MaxInFlight, o \in PostOutcomes : SaveZonesDone(i, o)
    \/ ClearError

SpecSequential == InitEmptyStore /\ [][SequentialNext]_vars

\* ------------------------------------------------------------------ claims
FailedPost == PostOutcomes \ {"ok"}

InFlight == 1..MaxInFlight

EditorInFlight == 1..MaxEditorInFlight

\* C1 (as claimed): a create or deactivate whose POST fails leaves the
\* collections the operator sees exactly as they were before the operation,
\* in the store hook and in the editor component alike.
FailedSaveLeavesCollections ==
    [][/\ \A i \in InFlight, o \in FailedPost :
            SaveZonesDone(i, o) => (zones' = zones /\ logs' = logs)
       /\ \A i \in EditorInFlight, o \in FailedPost :
            (SaveNewZoneDone(i, o) \/ EdDeleteZoneDone(i, o)) =>
                (highRiskZones' = edReqs[i].zones0 /\ zoneLog' = edReqs[i].logs0)]_vars

AllZonesOf(zs) == {zs[i] : i \in DOMAIN zs}

\* every zone held in memory, sent in a POST or stored in zones.json
PersistedZones ==
    AllZonesOf(zones) \cup AllZonesOf(highRiskZones) \cup AllZonesOf(file.zones)
    \cup UNION {AllZonesOf(hookReqs[i].zonesData) : i \in DOMAIN hookReqs}
    \cup UNION {AllZonesOf(edReqs[i].zonesData) : i \in DOMAIN edReqs}

\* C2 (as claimed): no zone with fewer than 3 points is ever held in memory,
\* sent to the remote store or stored by it.
NoZoneUnderThreePoints == \A z \in PersistedZones : Len(z.coordinates) >= 3

\* C3 (as claimed): the store's create issues no POST for a blank name or for
\* fewer than 3 points.
CreateRejectsInvalidLocally ==
    \A i \in DOMAIN hookReqs :
        hookReqs[i].kind = "create" =>
            (~IsBlank(hookReqs[i].name) /\ Len(hookReqs[i].coordinates) >= 3)

\* C4: finish with at least 3 points leaves drawing and opens the dialog with
\* the points kept; finish with fewer than 3 points changes neither the mode,
\* the dialog nor the points.
FinishGate ==
    [][FinishPolygon =>
        IF Len(drawingCoordinates) >= 3
        THEN /\ drawingMode' = "none"
             /\ isDialogOpen'
             /\ drawingCoordinates' = drawingCoordinates
        ELSE /\ drawingMode' = "polygon"
             /\ ~isDialogOpen'
             /\ drawingCoordinates' = drawingCoordinates]_vars

\* C4 witness: a finish with too few points has been refused and a later
\* finish with 3 points has opened the dialog.
FinishGateWitness ==
    /\ alertMsg = MinPointsAlert
    /\ isDialogOpen
    /\ drawingMode = "none"
    /\ Len(drawingCoordinates) = 3

\* C5 (as claimed): cancel in any editor state ends in idle with no points
\* and a closed dialog, and touches neither the collections nor zones.json.
CancelAlwaysResets ==
    [][(CancelDrawing \/ DialogCancel) =>
        /\ drawingMode' = "none"
        /\ drawingCoordinates' = <<>>
        /\ ~isDialogOpen'
        /\ UNCHANGED <<highRiskZones, zoneLog, file>>]_vars

\* C6: a successful create ends with one more zone and one more active zone
\* than the call started from, and with a "created" entry for the new zone's
\* name in front of the log the call started from.
CreatePostcondition ==
    [][\A i \in InFlight :
        (SaveZonesDone(i, "ok") /\ hookReqs[i].kind = "create") =>
            /\ ActiveZoneCount(zones') = ActiveZoneCount(hookReqs[i].zones0) + 1
            /\ Len(zones') = Len(hookReqs[i].zones0) + 1
            /\ logs'[1].action = "created"
            /\ logs'[1].zoneName = zones'[Len(zones')].name
            /\ zones'[Len(zones')].name = hookReqs[i].name
            /\ Tail(logs') = hookReqs[i].logs0]_vars

\* C6 witness: a create has returned true on a collection that already held
\* a zone and a log entry.
CreatePostconditionWitness ==
    /\ hookRet = [op |-> "create", ok |-> TRUE]
    /\ Len(zones) = 2
    /\ Len(logs) >= 2
    /\ logs[1].action = "created"

SameButActive(z1, z0) ==
    /\ z1.id = z0.id
    /\ z1.name = z0.name
    /\ z1.description = z0.description
    /\ z1.severity = z0.severity
    /\ z1.coordinates = z0.coordinates
    /\ z1.createdAt = z0.createdAt
    /\ z1.createdBy = z0.createdBy

\* C7: a successful deactivate of an active zone ends with that zone
\* inactive and otherwise as it was, every other zone as it was, one active
\* zone fewer, and a "deleted" entry for the zone's name at index 0.
DeactivatePostcondition ==
    [][\A i \in InFlight :
        (/\ SaveZonesDone(i, "ok")
         /\ hookReqs[i].kind = "delete"
         /\ hookReqs[i].zones0[FindZone(hookReqs[i].zones0, hookReqs[i].zoneId)].isActive) =>
            LET z0 == hookReqs[i].zones0
                k == FindZone(z0, hookReqs[i].zoneId)
            IN /\ DOMAIN zones' = DOMAIN z0
               /\ ~zones'[k].isActive
               /\ SameButActive(zones'[k], z0[k])
               /\ \A j \in DOMAIN z0 : j # k => zones'[j] = z0[j]
               /\ ActiveZoneCount(zones') = ActiveZoneCount(z0) - 1
               /\ logs'[1].action = "deleted"
               /\ logs'[1].zoneName = z0[k].name]_vars

\* C7 witness: a deactivate has returned true and left one of two zones
\* active.
DeactivatePostconditionWitness ==
    /\ hookRet = [op |-> "delete", ok |-> TRUE]
    /\ Len(zones) = 2
    /\ ActiveZoneCount(zones) = 1
    /\ logs[1].action = "deleted"

\* C8: deactivate with an id that matches no zone returns false, sends
\* nothing and leaves zones, logs and zones.json as they were.
UnknownIdRejected ==
    [][\A id \in ZoneIdInputs :
        (DeleteZoneNotFound(id) \/ \E t \in Timestamps : DeleteZoneStart(id, t)) =>
            IF \E k \in DOMAIN zones : zones[k].id = id
            THEN hookReqs' # hookReqs
            ELSE /\ hookRet' = [op |-> "delete", ok |-> FALSE]
                 /\ hookReqs' = hookReqs
                 /\ UNCHANGED <<zones, logs, file>>]_vars

\* C8 witness: a deactivate of an unknown id has returned false on a
\* collection that holds a zone.
UnknownIdRejectedWitness ==
    /\ hookRet = [op |-> "delete", ok |-> FALSE]
    /\ error = "Zone not found"
    /\ zones # <<>>
    /\ hookReqs = <<>>

Ring(feature) == feature.geometry.coordinates[1]

\* C9 (as claimed): the export has one feature per active zone and each
\* feature's ring is closed, with one coordinate more than the zone has
\* vertices.
ExportRingsClosed ==
    LET fs == GeoJsonData(highRiskZones).features
        act == ActiveZones(highRiskZones)
    IN /\ Len(fs) = Len(act)
       /\ \A k \in DOMAIN fs :
            /\ fs[k].properties.id = act[k].id
            /\ Len(Ring(fs[k])) = Len(act[k].coordinates) + 1
            /\ Ring(fs[k])[1] = Ring(fs[k])[Len(Ring(fs[k]))]

\* C10: load returns true with empty collections on 404, true with the
\* fetched snapshot on success, and false with an error message and empty
\* collections on any other response; it sets no error when it succeeds.
LoadOutcomes ==
    [][\A i \in InFlight, o \in GetOutcomes :
        LoadZonesDone(i, o) =>
            /\ hookRet'.op = "load"
            /\ hookRet'.ok \in BOOLEAN
            /\ (o = "404" =>
                    hookRet'.ok /\ zones' = <<>> /\ logs' = <<>> /\ error' = error)
            /\ (o = "ok" =>
                    /\ hookRet'.ok
                    /\ zones' = (IF file.exists THEN file.zones ELSE <<>>)
                    /\ logs' = (IF file.exists THEN file.logs ELSE <<>>)
                    /\ error' = error)
            /\ (o \notin {"ok", "404"} =>
                    /\ ~hookRet'.ok
                    /\ error' \notin {NULL, ""}
                    /\ zones' = <<>>
                    /\ logs' = <<>>)]_vars

\* C10 witness: a load has failed while zones.json held a zone.
LoadOutcomesWitness ==
    /\ hookRet = [op |-> "load", ok |-> FALSE]
    /\ error = "HTTP error! status: 500"
    /\ zones = <<>>
    /\ file.zones # <<>>

FailedGet == GetOutcomes \ {"ok", "404"}

\* C11 (as claimed): every failed fetch of load, create or deactivate is
\* caught by the hook, which stores an error string, returns false and leaves
\* zones and logs exactly as they were before the operation.
RemoteErrorLeavesState ==
    [][\A i \in InFlight :
        /\ \A o \in FailedGet :
              LoadZonesDone(i, o) =>
                  /\ error' = ErrorMessage(o)
                  /\ hookRet' = [op |-> "load", ok |-> FALSE]
                  /\ zones' = zones
                  /\ logs' = logs
        /\ \A o \in FailedPost :
              SaveZonesDone(i, o) =>
                  /\ error' = ErrorMessage(o)
                  /\ hookRet' = [op |-> hookReqs[i].kind, ok |-> FALSE]
                  /\ zones' = zones
                  /\ logs' = logs]_vars

\* s is the tail end of t
IsSuffix(s, t) ==
    /\ Len(s) <= Len(t)
    /\ SubSeq(t, Len(t) - Len(s) + 1, Len(t)) = s

\* C12 (as claimed): the hook's log is append-only and newest-first: whatever
\* a load, create or deactivate does, and whether it succeeds or fails, the
\* log held before the step is a suffix of the log held after it.
LogAppendOnly == [][IsSuffix(logs, logs')]_vars

\* the editor's create and deactivate requests that are awaiting their POST
PostsInFlight == {i \in DOMAIN edReqs : edReqs[i].kind \in {"create", "delete"}}

\* C13 (as claimed): the control that started a create or deactivate is
\* disabled while the request is in flight, so the editor never has more than
\* one POST outstanding.
OnePostInFlight == Cardinality(PostsInFlight) <= 1

\* the last alert shown reports a failed write
FailureAlertShown(msg) == msg \notin {NULL, MinPointsAlert}

\* C14 (as claimed): when the POST of a create fails the operator is told and
\* the dialog stays open with name, description, severity and points as
\* entered; when the POST of a deactivate fails the operator is told and the
\* zone stays selected.
FailedWriteKeepsSession ==
    [][\A i \in EditorInFlight, o \in FailedPost :
        /\ SaveNewZoneDone(i, o) =>
              /\ FailureAlertShown(alertMsg')
              /\ isDialogOpen'
              /\ newZoneName' = newZoneName
              /\ newZoneDescription' = newZoneDescription
              /\ newZoneSeverity' = newZoneSeverity
              /\ drawingCoordinates' = drawingCoordinates
        /\ EdDeleteZoneDone(i, o) =>
              /\ FailureAlertShown(alertMsg')
              /\ selectedZone' = selectedZone]_vars

\* ids of the zones of a collection whose isActive is false
InactiveIds(zs) == {zs[i].id : i \in {j \in DOMAIN zs : ~zs[j].isActive}}

\* C15 (as claimed): no inactive zone is rendered: once no create or
\* deactivate is awaiting its POST, the map holds no source (with its fill
\* and border layer) and no label marker for a zone whose isActive is false.
NoInactiveRendered ==
    PostsInFlight = {} =>
        \A id \in InactiveIds(highRiskZones) :
            /\ id \notin zoneSources
            /\ \A m \in zoneLabels : m.zone.id # id

\* the file that holds exactly the snapshot a request has posted
PostedFile(r) == [exists |-> TRUE, zones |-> r.zonesData, logs |-> r.logsData]

\* C16: last write wins. Whatever another session has written since this
\* session read its collections, an accepted create leaves the remote store
\* holding exactly the snapshot this session sent (its own collections at
\* call time plus its one new zone and log entry), and the session sees no
\* error.
LastWriteWins ==
    [][/\ \A i \in InFlight :
            (SaveZonesDone(i, "ok") /\ hookReqs[i].kind = "create") =>
                /\ file' = PostedFile(hookReqs[i])
                /\ Len(file'.zones) = Len(hookReqs[i].zones0) + 1
                /\ SubSeq(file'.zones, 1, Len(hookReqs[i].zones0)) = hookReqs[i].zones0
                /\ Tail(file'.logs) = hookReqs[i].logs0
                /\ hookRet' = [op |-> "create", ok |-> TRUE]
                /\ error' = error
       /\ \A i \in EditorInFlight :
            SaveNewZoneDone(i, "ok") =>
                /\ file' = PostedFile(edReqs[i])
                /\ Len(file'.zones) = Len(edReqs[i].zones0) + 1
                /\ SubSeq(file'.zones, 1, Len(edReqs[i].zones0)) = edReqs[i].zones0
                /\ Tail(file'.logs) = edReqs[i].logs0
                /\ alertMsg' = alertMsg]_vars

\* both sessions have loaded the seeded snapshot and created a zone on it,
\* the hook's POST was accepted, and the remote store now holds the editor's
\* later snapshot, in which the hook's zone and log entry are missing
LastWriteWinsWitness ==
    /\ hookReqs = <<>>
    /\ edReqs = <<>>
    /\ hookRet = [op |-> "create", ok |-> TRUE]
    /\ error = NULL
    /\ alertMsg = NULL
    /\ Len(zones) = 2
    /\ Len(highRiskZones) = 2
    /\ zones[1] = SeedZone
    /\ highRiskZones[1] = SeedZone
    /\ file.zones = highRiskZones
    /\ file.logs = zoneLog
    /\ zones[Len(zones)] \notin AllZonesOf(file.zones)
    /\ logs[1] \notin AllZonesOf(file.logs)

\* HRZ followed by n written with at least three digits
ThreeDigitId(n) ==
    IF n < 10 THEN "HRZ00" \o ToString(n)
    ELSE IF n < 100 THEN "HRZ0" \o ToString(n)
    ELSE "HRZ" \o ToString(n)

\* the hook's and the editor's create requests awaiting their POST
HookCreates == {i \in DOMAIN hookReqs : hookReqs[i].kind = "create"}

EditorCreates == {j \in DOMAIN edReqs : edReqs[j].kind = "create"}

\* the zone a create request has added to the snapshot it posts
CreatedZone(r) == r.zonesData[Len(r.zonesData)]

\* C17: the id of a new zone is HRZ followed by the size of the session's
\* collection plus one, in three digits, so whenever the two sessions have
\* creates in flight that started from collections of equal size, the two
\* new zones carry the same id.
IdFromCollectionSize ==
    /\ \A i \in HookCreates :
          /\ hookReqs[i].zoneId = ThreeDigitId(Len(hookReqs[i].zones0) + 1)
          /\ CreatedZone(hookReqs[i]).id = hookReqs[i].zoneId
    /\ \A j \in EditorCreates :
          /\ edReqs[j].zoneId = ThreeDigitId(Len(edReqs[j].zones0) + 1)
          /\ CreatedZone(edReqs[j]).id = edReqs[j].zoneId
    /\ \A i \in HookCreates, j \in EditorCreates :
          Len(hookReqs[i].zones0) = Len(edReqs[j].zones0) =>
              CreatedZone(hookReqs[i]).id = CreatedZone(edReqs[j]).id

\* the two sessions create concurrently on collections of equal size: two
\* different zones with one id are on their way to the remote store, and
\* neither session has an error or an alert
IdCollisionWitness ==
    \E i \in HookCreates, j \in EditorCreates :
        /\ Len(hookReqs[i].zones0) = Len(edReqs[j].zones0)
        /\ CreatedZone(hookReqs[i]).id = CreatedZone(edReqs[j]).id
        /\ CreatedZone(hookReqs[i]) # CreatedZone(edReqs[j])
        /\ error = NULL
        /\ alertMsg = NULL

\* the snapshot a request has posted
PostedData(r) == [zones |-> r.zonesData, logs |-> r.logsData]

\* C18: the remote store replaces the whole snapshot on POST: right after an
\* accepted POST a GET returns exactly the posted snapshot; what a GET returns
\* changes with no step other than an accepted POST or a DELETE; a load reads
\* exactly what the store holds; and while zones.json does not exist a GET
\* returns the empty snapshot.
WholeSnapshotReplaced ==
    [][/\ \A i \in InFlight :
            SaveZonesDone(i, "ok") => ServerGet(file') = PostedData(hookReqs[i])
       /\ ((\A i \in InFlight : ~SaveZonesDone(i, "ok")) /\ ~ClearAllData) =>
            ServerGet(file') = ServerGet(file)
       /\ \A i \in InFlight :
            LoadZonesDone(i, "ok") =>
                (zones' = ServerGet(file).zones /\ logs' = ServerGet(file).logs)
       /\ ~file.exists => ServerGet(file) = EmptyData]_vars

\* the hook's second accepted POST: the store returns the two-entry snapshot
\* just posted, and nothing of the seeded snapshot or of the first POST
\* beside it
WholeSnapshotReplacedWitness ==
    /\ hookRet \in {[op |-> "create", ok |-> TRUE], [op |-> "delete", ok |-> TRUE]}
    /\ hookReqs = <<>>
    /\ Len(logs) = 2
    /\ ServerGet(file) = [zones |-> zones, logs |-> logs]
    /\ SeedZone \notin AllZonesOf(file.zones)

RECURSIVE SeqSum(_)
\* the sum of a sequence of numbers
SeqSum(s) == IF s = <<>> THEN 0 ELSE Head(s) + SeqSum(Tail(s))

\* the quotient q equals the arithmetic mean of the numbers in s
IsMeanOf(q, s) == q.den # 0 /\ q.num * Len(s) = SeqSum(s) * q.den

Lats(coordinates) == [k \in DOMAIN coordinates |-> coordinates[k].lat]

Lngs(coordinates) == [k \in DOMAIN coordinates |-> coordinates[k].lng]

\* C19: every label marker sits at the arithmetic mean of its polygon's
\* latitudes and the arithmetic mean of its longitudes (lngLat holds
\* longitude first); for the square (0,0), (0,2), (2,2), (2,0) that is (1,1).
LabelAtMean ==
    \A m \in zoneLabels :
        /\ IsMeanOf(m.lngLat[2], Lats(m.zone.coordinates))
        /\ IsMeanOf(m.lngLat[1], Lngs(m.zone.coordinates))
        /\ m.zone.coordinates = Square =>
              /\ m.lngLat[2].num = 1 * m.lngLat[2].den
              /\ m.lngLat[1].num = 1 * m.lngLat[1].den

\* the label of the square is on the map, at 4/4 by 4/4
LabelAtMeanWitness ==
    /\ mapLoaded
    /\ dataLoaded
    /\ \E m \in zoneLabels :
          /\ m.zone.coordinates = Square
          /\ m.lngLat = <<Quotient(4, 4), Quotient(4, 4)>>

\* what a map click outside drawing is said to leave alone, the selection aside
ClickFrame ==
    <<drawingCoordinates, drawingMode, isDialogOpen, highRiskZones, zoneLog, file,
      alertMsg, edReqs>>

\* a map click, outside drawing, that lands on the fill layer of a rendered
\* zone: handleMapClick returns early and the layer's click handler runs
ZoneClickOutsideDrawing ==
    /\ SelectZone
    /\ drawingMode # "polygon"
    /\ selectedZone'[1].id \in zoneSources

\* C20 (as claimed): a map click outside drawing is a no-op: points, mode,
\* dialog, selection, zones, logs and remote store are unchanged and no alert
\* is raised.
MapClickIsNoOp ==
    [][((\E p \in Points : MapClickIgnored(p)) \/ ZoneClickOutsideDrawing) =>
            UNCHANGED <<ClickFrame, selectedZone>>]_vars

\* C20 (amended): a map click outside drawing leaves points, mode, dialog,
\* zones, logs and remote store unchanged and raises no alert; it leaves the
\* selection unchanged too unless it lands on a rendered zone, which then
\* becomes the selected zone. Points are added in polygon mode only.
MapClickOutsideDrawing ==
    [][/\ \A p \in Points : MapClickIgnored(p) => UNCHANGED <<ClickFrame, selectedZone>>
       /\ ZoneClickOutsideDrawing =>
            /\ UNCHANGED ClickFrame
            /\ \E m \in zoneLabels : selectedZone' = <<m.zone>>
       /\ Len(drawingCoordinates') > Len(drawingCoordinates) => drawingMode = "polygon"]_vars

\* outside drawing, with the dialog closed, a click on a rendered zone has
\* selected it
MapClickOutsideDrawingWitness ==
    /\ drawingMode = "none"
    /\ ~isDialogOpen
    /\ selectedZone # <<>>
    /\ selectedZone[1].id \in zoneSources
    /\ drawingCoordinates = <<>>

CommitResetsSession ==
    [][\A i \in EditorInFlight, o \in PostOutcomes :
        SaveNewZoneDone(i, o) =>
            /\ drawingMode' = "none"
            /\ drawingCoordinates' = <<>>
            /\ ~isDialogOpen'
            /\ newZoneName' = <<>>
            /\ newZoneDescription' = ""
            /\ newZoneSeverity' = "medium"]_vars

\* C23: the review dialog is open only in the reviewing state: whenever it is
\* open the mode is not polygon and the session holds at least 3 points, and
\* the only step that opens it is finishPolygon.
DialogOnlyInReview ==
    /\ [](isDialogOpen => (drawingMode # "polygon" /\ Len(drawingCoordinates) >= 3))
    /\ [][(~isDialogOpen /\ isDialogOpen') => FinishPolygon]_vars

\* reviewing: the dialog is open on a finished 3-point polygon and a name has
\* been entered
DialogOnlyInReviewWitness ==
    /\ isDialogOpen
    /\ drawingMode = "none"
    /\ Len(drawingCoordinates) = 3
    /\ newZoneName = <<"A">>

\* ids of the zones of a collection whose isActive is true
ActiveIds(zs) == {zs[i].id : i \in {j \in DOMAIN zs : zs[j].isActive}}

\* the remote store holds a zone the editor has created
EditorCreateAccepted == \E z \in AllZonesOf(file.zones) : z.createdBy = EditorOfficer

\* C24 (as claimed): once a create of the editor has been accepted, in every
\* state where map and data are loaded and no request is in flight, the zones
\* that have overlays on the map are exactly the active zones.
OverlaysAreActiveZones ==
    (EditorCreateAccepted /\ mapLoaded /\ dataLoaded /\ edReqs = <<>>) =>
        zoneSources = ActiveIds(highRiskZones)

AllLogsOf(ls) == {ls[i] : i \in DOMAIN ls}

\* C25 (as claimed): a failed load costs no remote data: when the hook's last
\* load has failed and a create or deactivate is then accepted, every zone
\* and log entry the remote store held before the POST is still in it.
FailedLoadLosesNothing ==
    [][\A i \in InFlight :
        (SaveZonesDone(i, "ok") /\ hookRet = [op |-> "load", ok |-> FALSE]) =>
            /\ AllZonesOf(file.zones) \subseteq AllZonesOf(file'.zones)
            /\ AllLogsOf(file.logs) \subseteq AllLogsOf(file'.logs)]_vars

\* the last call the hook finished was an accepted create or deactivate
LastSaveAccepted ==
    hookRet \in {[op |-> "create", ok |-> TRUE], [op |-> "delete", ok |-> TRUE]}

\* C26 (as claimed): two overlapping store operations both take effect: when
\* a create or deactivate is accepted after another one, started before it
\* completed, has been accepted, the collections and the remote store keep
\* the other operation's log entry and zone change and gain this one's.
OverlappingOpsBothApply ==
    [][\A i \in InFlight :
        (SaveZonesDone(i, "ok") /\ LastSaveAccepted /\ hookReqs[i].logs0 # logs) =>
            /\ IsSuffix(logs, logs')
            /\ Len(logs') = Len(logs) + 1
            /\ Len(zones') >= Len(zones)
            /\ \A k \in DOMAIN zones :
                  /\ zones'[k].id = zones[k].id
                  /\ zones'[k].name = zones[k].name
                  /\ ~zones[k].isActive => ~zones'[k].isActive
            /\ file'.zones = zones'
            /\ file'.logs = logs']_vars

\* no two items of a sequence of zones or log entries carry the same id
DistinctIds(s) == \A i, j \in DOMAIN s : s[i].id = s[j].id => i = j

\* C27: in a single session on a store that starts empty, with load, create
\* and deactivate run one at a time, the zone ids are pairwise distinct and
\* the log ids are pairwise distinct, in the hook's collections, in every
\* snapshot on its way and in the remote store.
IdsPairwiseDistinct ==
    /\ DistinctIds(zones)
    /\ DistinctIds(logs)
    /\ DistinctIds(file.zones)
    /\ DistinctIds(file.logs)
    /\ \A i \in DOMAIN hookReqs :
          DistinctIds(hookReqs[i].zonesData) /\ DistinctIds(hookReqs[i].logsData)

\* a zone was created, deactivated, and a second zone created after it: two
\* zones and three log entries
IdsPairwiseDistinctWitness ==
    /\ hookReqs = <<>>
    /\ Len(zones) = 2
    /\ ~zones[1].isActive
    /\ zones[2].isActive
    /\ Len(logs) = 3
    /\ file.zones = zones

\* the number of log entries with the given action
LogCount(ls, action) == Len(SelectSeq(ls, LAMBDA e : e.action = action))

\* C28 (as claimed): the audit log matches the zone collection: there are as
\* many 'created' entries as zones and as many 'deleted' entries as inactive
\* zones, so deactivating an inactive zone adds no second 'deleted' entry.
LogMatchesZones ==
    /\ LogCount(logs, "created") = Len(zones)
    /\ LogCount(logs, "deleted") = Len(zones) - ActiveZoneCount(zones)

\* C29 (as claimed): the hook's loading flag is true exactly while a load or
\* save request is awaiting its response.
LoadingWhileInFlight == loading <=> (hookReqs # <<>>)

\* C30 (as claimed): once no create or deactivate is awaiting its POST, the
\* selected zone is either empty or an active zone of the current collection;
\* a deactivated zone cannot be selected again.
SelectionIsActiveZone ==
    (PostsInFlight = {} /\ selectedZone # <<>>) =>
        selectedZone[1].id \in ActiveIds(highRiskZones)

====
